---- MODULE Spec2Model ----
(***************************************************************************)
(* Model of src/main.py: the HTML-to-record extractors                     *)
(* (parse_games_html_with_dates, parse_games_html), the day aggregator     *)
(* (fetch_all_games, fetch_games_for_specific_date) and the cache          *)
(* endpoints (get_games, refresh_games).                                   *)
(*                                                                         *)
(* Conventions.                                                            *)
(*  - A Python str is a sequence of one-character strings, so that strip,  *)
(*    lower, isdigit, substring search and replace are computed.           *)
(*  - An optional value (Python None / a value) is a sequence of length 0  *)
(*    or 1: None == <<>>, Some(x) == <<x>>.                                *)
(*  - An element's text is the sequence of its text nodes in document      *)
(*    order (nested tags contribute their own text nodes).                 *)
(*  - A function that may raise returns [exc |-> BOOLEAN, ...].            *)
(***************************************************************************)
EXTENDS Integers, Sequences, FiniteSets, TLC

VARIABLES
    html,        \* the markup handed to an extractor
    date_str,    \* parse_games_html's date_str argument
    games,       \* the list an extractor returned
    called,      \* which extractor ran ("none" before the call)
    today,       \* fetch_all_games: datetime.now().date() read at its start
    upstream,    \* the upstream service, see respond
    all_games,   \* fetch_all_games: the returned list
    calls,       \* the date strings posted to upstream, in order
    agg,         \* "idle" | "returned" | "raised"
    cache,       \* CACHE_FILE: None or Some(parsed JSON document)
    response,    \* the GamesResponse of the last API request
    posts,       \* number of upstream requests made by the API so far
    now,         \* logical clock read by datetime.now() in refresh_games
    produced,    \* history: the collection the last successful refresh fetched
    replaced,    \* history: the collection held by the snapshot it overwrote
    disk,        \* overlapping requests: None or Some(text of CACHE_FILE)
    pending,     \* refresh requests suspended in "await fetch_all_games()"
    answer,      \* overlapping requests: the GamesResponse last returned
    written,     \* history: the collections finished refreshes dumped in full
    clock        \* number of refresh requests received so far

vars == <<html, date_str, games, called, today, upstream, all_games, calls,
          agg, cache, response, posts, now, produced, replaced,
          disk, pending, answer, written, clock>>

extractVars == <<html, date_str, games, called>>
aggVars == <<today, upstream, all_games, calls, agg>>
cacheVars == <<cache, response, posts, now, produced, replaced>>
concVars == <<disk, pending, answer, written, clock>>

----------------------------------------------------------------------------
(* Bounds of the model *)

MaxContainers == 3
MaxSections == 2
MaxGameDays == 2
MaxRefreshes == 3
MaxOverlap == 2

----------------------------------------------------------------------------
(* Python values and str methods *)

None == <<>>
Some(x) == <<x>>

Whitespace == {" ", "\n", "\t"}
DigitChars == <<"0", "1", "2", "3", "4", "5", "6", "7", "8", "9">>
UpperChars == <<"A", "B", "C", "D", "E", "F", "G", "H", "I", "J", "K", "L", "M",
                "N", "O", "P", "Q", "R", "S", "T", "U", "V", "W", "X", "Y", "Z">>
LowerChars == <<"a", "b", "c", "d", "e", "f", "g", "h", "i", "j", "k", "l", "m",
                "n", "o", "p", "q", "r", "s", "t", "u", "v", "w", "x", "y", "z">>

lower_char(c) ==
    IF \E i \in DOMAIN UpperChars : UpperChars[i] = c
    THEN LowerChars[CHOOSE i \in DOMAIN UpperChars : UpperChars[i] = c]
    ELSE c

\* str.lower()
lower(s) == [i \in 1..Len(s) |-> lower_char(s[i])]

\* str.isdigit(): non-empty and every character a digit
isdigit(s) ==
    /\ Len(s) > 0
    /\ \A i \in 1..Len(s) : \E k \in DOMAIN DigitChars : DigitChars[k] = s[i]

\* sub in s
contains(sub, s) ==
    \E k \in 0..(Len(s) - Len(sub)) : SubSeq(s, k + 1, k + Len(sub)) = sub

RECURSIVE lstrip_chars(_, _)
\* str.lstrip(chars)
lstrip_chars(s, chars) ==
    IF s # <<>> /\ Head(s) \in chars THEN lstrip_chars(Tail(s), chars) ELSE s

RECURSIVE rstrip_chars(_, _)
\* str.rstrip(chars)
rstrip_chars(s, chars) ==
    IF s # <<>> /\ s[Len(s)] \in chars
    THEN rstrip_chars(SubSeq(s, 1, Len(s) - 1), chars)
    ELSE s

\* str.strip()
strip(s) == rstrip_chars(lstrip_chars(s, Whitespace), Whitespace)

RECURSIVE replace(_, _, _)
\* str.replace(old, new), old non-empty: leftmost non-overlapping occurrences
replace(s, old, new) ==
    IF Len(s) < Len(old) THEN s
    ELSE IF SubSeq(s, 1, Len(old)) = old
         THEN new \o replace(SubSeq(s, Len(old) + 1, Len(s)), old, new)
         ELSE <<Head(s)>> \o replace(Tail(s), old, new)

RECURSIVE get_text(_)
\* Tag.get_text(strip=True): every text node stripped, empty ones dropped,
\* the rest concatenated
get_text(elem) ==
    IF elem = <<>> THEN <<>> ELSE strip(Head(elem)) \o get_text(Tail(elem))

----------------------------------------------------------------------------
(* The markup.                                                             *)
(* A fragment is [matches, sections, pNowDate]: matches are the div.match  *)
(* containers in document order; sections are the div[gameday] elements in *)
(* document order, each covering the containers lo..hi that lie inside it  *)
(* (two sections are nested or disjoint); pNowDate is the optional         *)
(* #pNowDate element.                                                      *)
(* A container is                                                          *)
(*   data_id     its data-id attribute                                     *)
(*   left_home   the first a.teamHome inside its div.iml-team-left, if any *)
(*   any_home    the first .teamHome element anywhere in it, if any        *)
(*   right_away, any_away   the same for the away team                     *)
(*   score1, score2   its first .match-team1Score / .match-team2Score      *)
(*   muted       its small.text-muted elements, in document order          *)
(*   raises      a resolver raises an exception while it is processed      *)
(***************************************************************************)

SENTINEL == <<"-", "-">>
FORFEIT == <<"f", "o", "r", "f", "e", "i", "t">>
DEFAULT == <<"d", "e", "f", "a", "u", "l", "t">>

\* class Game (the fields the extractors compute from teams, scores, markers
\* and date; time, sport, location, league and the two records are resolved
\* independently of these and of each other)
Game(game_id, home_team, away_team, home_score, away_score, date, status) ==
    [game_id |-> game_id, home_team |-> home_team, away_team |-> away_team,
     home_score |-> home_score, away_score |-> away_score, date |-> date,
     status |-> status]

\* soup.select('div[gameday]')
select_sections(fragment) == fragment.sections

\* mutant: the containers are selected from the whole fragment
\* (soup.select) instead of from the section
select_matches_in_soup(fragment, section) == fragment.matches

\* date_section.select('div.match')
select_matches_in(fragment, section) ==
    SubSeq(fragment.matches, section.lo, section.hi)

\* soup.select('div.match')
select_matches(fragment) == fragment.matches

\* the team elements as parse_games_html_with_dates resolves them
home_team_elem_detailed(e) ==
    IF e.left_home # None THEN e.left_home ELSE e.any_home

away_team_elem_detailed(e) ==
    IF e.right_away # None THEN e.right_away ELSE e.any_away

\* X.get_text(strip=True) if X else "--"
score_text(score_elem) ==
    IF score_elem # None THEN get_text(score_elem[1]) ELSE SENTINEL

\* the forfeit/default detector: the first small.text-muted only
is_forfeit(e) ==
    LET forfeit_text == IF e.muted # <<>> THEN lower(get_text(Head(e.muted)))
                        ELSE <<>>
    IN  contains(FORFEIT, forfeit_text) \/ contains(DEFAULT, forfeit_text)

\* the status classifier of parse_games_html_with_dates
status_detailed(home_score_text, away_score_text, forfeit) ==
    IF home_score_text = SENTINEL /\ away_score_text = SENTINEL
    THEN (IF forfeit THEN "forfeit" ELSE "scheduled")
    ELSE IF isdigit(home_score_text) /\ isdigit(away_score_text)
         THEN (IF forfeit THEN "forfeit" ELSE "completed")
         ELSE (IF forfeit THEN "forfeit" ELSE "unknown")

\* the status classifier of parse_games_html
status_simple(home_score, away_score) ==
    IF home_score = SENTINEL \/ away_score = SENTINEL THEN "scheduled"
    ELSE IF isdigit(home_score) /\ isdigit(away_score) THEN "completed"
         ELSE "unknown"

\* One iteration of parse_games_html_with_dates' inner loop: None when the
\* container is skipped (continue), Some(game) when a Game is appended.
parse_match_detailed(e, current_date) ==
    IF e.raises THEN None
    ELSE IF home_team_elem_detailed(e) = None \/ away_team_elem_detailed(e) = None
    THEN None
    ELSE LET home_score_text == score_text(e.score1)
             away_score_text == score_text(e.score2)
         IN  Some(Game(e.data_id,
                       get_text(home_team_elem_detailed(e)[1]),
                       get_text(away_team_elem_detailed(e)[1]),
                       home_score_text, away_score_text, Some(current_date),
                       status_detailed(home_score_text, away_score_text,
                                       is_forfeit(e))))

\* One iteration of parse_games_html's loop.
parse_match_simple(e, current_date) ==
    IF e.raises THEN None
    ELSE IF e.any_home = None \/ e.any_away = None THEN None
    ELSE LET home_score == score_text(e.score1)
             away_score == score_text(e.score2)
         IN  Some(Game(e.data_id, get_text(e.any_home[1]), get_text(e.any_away[1]),
                       home_score, away_score, current_date,
                       status_simple(home_score, away_score)))

RECURSIVE parse_matches_detailed_abort(_, _)
\* mutant: the try/except wraps the loop, so the first container that is
\* skipped ends the batch
parse_matches_detailed_abort(game_elements, current_date) ==
    IF game_elements = <<>> THEN <<>>
    ELSE IF parse_match_detailed(Head(game_elements), current_date) = None THEN <<>>
    ELSE parse_match_detailed(Head(game_elements), current_date)
         \o parse_matches_detailed_abort(Tail(game_elements), current_date)

RECURSIVE parse_matches_detailed(_, _)
\* for game_elem in game_elements: try ... except: continue
parse_matches_detailed(game_elements, current_date) ==
    IF game_elements = <<>> THEN <<>>
    ELSE parse_match_detailed(Head(game_elements), current_date)
         \o parse_matches_detailed(Tail(game_elements), current_date)

RECURSIVE parse_sections(_, _)
\* for date_section in date_sections: ...
parse_sections(fragment, date_sections) ==
    IF date_sections = <<>> THEN <<>>
    ELSE LET date_section == Head(date_sections)
         IN  parse_matches_detailed(select_matches_in(fragment, date_section),
                                    date_section.gameday)
             \o parse_sections(fragment, Tail(date_sections))

parse_games_html_with_dates(html_content) ==
    parse_sections(html_content, select_sections(html_content))

\* parse_games_html's date: the argument, else #pNowDate's text, else the
\* first gameday attribute, else None ("not current_date" is true of None
\* and of the empty string)
current_date_simple(fragment, date_arg) ==
    LET from_arg == date_arg
        from_now == IF from_arg # None /\ from_arg[1] # <<>> THEN from_arg
                    ELSE IF fragment.pNowDate # None
                         THEN Some(get_text(fragment.pNowDate[1]))
                         ELSE None
    IN  IF from_now # None /\ from_now[1] # <<>> THEN from_now
        ELSE IF fragment.sections # <<>>
             THEN Some(fragment.sections[1].gameday)
             ELSE from_now

RECURSIVE parse_matches_simple(_, _)
\* for game_elem in game_elements: try ... except: continue
parse_matches_simple(game_elements, current_date) ==
    IF game_elements = <<>> THEN <<>>
    ELSE parse_match_simple(Head(game_elements), current_date)
         \o parse_matches_simple(Tail(game_elements), current_date)

parse_games_html(html_content, date_arg) ==
    parse_matches_simple(select_matches(html_content),
                         current_date_simple(html_content, date_arg))

----------------------------------------------------------------------------
(* The markup the extractors are run on *)

Chars_Jets == <<"J", "e", "t", "s">>
Chars_Owls == <<"O", "w", "l", "s">>
Chars_21 == <<"2", "1">>
Chars_14 == <<"1", "4">>
Chars_Record == <<"(", "3", "-", "1", "-", "0", ")">>
Chars_Forfeit == <<"F", "o", "r", "f", "e", "i", "t">>
Chars_TeamADefault ==
    <<"T", "e", "a", "m", " ", "A", " ", "D", "E", "F", "A", "U", "L", "T">>
Chars_Final == <<"F", "i", "n", "a", "l">>
Gameday1 == <<"2", "/", "1", "5", "/", "2", "0", "2", "6">>
Gameday2 == <<"2", "/", "1", "6", "/", "2", "0", "2", "6">>
Gameday3 == <<"2", "/", "1", "7", "/", "2", "0", "2", "6">>
Ids == <<"g1", "g2", "g3", "g4", "g5">>

\* an element holding one text node / no text node / only white space
TextElem(chars) == <<chars>>
EmptyElem == <<>>
BlankElem == <<<<" ">>>>

\* the detailed layout of a team: a link inside the left/right wrapper
DetailedTeam(chars) == [wrapped |-> Some(TextElem(chars)), any |-> Some(TextElem(chars))]

HomeTeams ==
    { [wrapped |-> None, any |-> None],
      DetailedTeam(Chars_Jets),
      [wrapped |-> None, any |-> Some(TextElem(Chars_Jets))],
      [wrapped |-> None, any |-> Some(EmptyElem)],
      [wrapped |-> Some(BlankElem), any |-> Some(BlankElem)] }

AwayTeams ==
    { [wrapped |-> None, any |-> None],
      DetailedTeam(Chars_Owls),
      [wrapped |-> None, any |-> Some(TextElem(Chars_Owls))],
      [wrapped |-> Some(EmptyElem), any |-> Some(EmptyElem)] }

\* score elements: absent, "--", a number inside a nested span, no text,
\* a letter
HomeScores ==
    { None, Some(TextElem(SENTINEL)), Some(<<<<" ">>, Chars_21, <<"\n">>>>),
      Some(EmptyElem), Some(TextElem(<<"W">>)) }

AwayScores ==
    { None, Some(TextElem(SENTINEL)), Some(TextElem(Chars_14)),
      Some(TextElem(<<"L">>)) }

MutedLists ==
    { <<>>,
      <<TextElem(Chars_Record)>>,
      <<TextElem(Chars_Forfeit)>>,
      <<TextElem(Chars_TeamADefault)>>,
      <<TextElem(Chars_Final)>>,
      <<TextElem(Chars_Record), TextElem(Chars_Forfeit)>>,
      <<TextElem(Chars_Record), TextElem(Chars_Record), TextElem(Chars_TeamADefault)>>,
      <<TextElem(Chars_Forfeit), TextElem(Chars_Record)>> }

Container(home, away, score1, score2, muted, raises) ==
    [data_id |-> "", left_home |-> home.wrapped, any_home |-> home.any,
     right_away |-> away.wrapped, any_away |-> away.any,
     score1 |-> score1, score2 |-> score2, muted |-> muted, raises |-> raises]

\* containers with both teams resolvable, over every score and marker shape
StatusContainers ==
    { Container(DetailedTeam(Chars_Jets), DetailedTeam(Chars_Owls), s1, s2, m, FALSE) :
        s1 \in HomeScores, s2 \in AwayScores, m \in MutedLists }

\* containers over every team shape
TeamContainers ==
    { Container(h, a, Some(TextElem(Chars_21)), Some(TextElem(Chars_14)), <<>>, FALSE) :
        h \in HomeTeams, a \in AwayTeams }

\* the containers batches are built from: a played game, one without a home
\* team element, one whose processing raises
OkContainer ==
    Container(DetailedTeam(Chars_Jets), DetailedTeam(Chars_Owls),
              Some(TextElem(Chars_21)), Some(TextElem(Chars_14)), <<>>, FALSE)
BatchContainers ==
    { OkContainer,
      [OkContainer EXCEPT !.left_home = None, !.any_home = None],
      [OkContainer EXCEPT !.raises = TRUE] }

\* data-id by position: upstream ids are unique within a fragment
WithIds(es) == [i \in 1..Len(es) |-> [es[i] EXCEPT !.data_id = Ids[i]]]

SeqsUpTo(S, n) == UNION { [1..k -> S] : k \in 0..n }

Gamedays == <<Gameday1, Gameday2, Gameday3, Gameday1>>

\* sections in document order: a later section lies inside an earlier one
\* or wholly after it
WellFormedSections(secs, n) ==
    /\ \A i \in DOMAIN secs : 1 <= secs[i].lo /\ secs[i].lo <= secs[i].hi /\ secs[i].hi <= n
    /\ \A i, j \in DOMAIN secs :
          i < j => \/ secs[i].lo <= secs[j].lo /\ secs[j].hi <= secs[i].hi
                   \/ secs[i].hi < secs[j].lo

\* the i-th section of a fragment carries the i-th gameday
SectionLists(n) ==
    { [i \in DOMAIN spans |->
          [gameday |-> Gamedays[i], lo |-> spans[i].lo, hi |-> spans[i].hi]] :
        spans \in { sp \in SeqsUpTo([lo : 1..n, hi : 1..n], MaxSections) :
                      WellFormedSections(sp, n) } }

Fragment(matches, sections, pNowDate) ==
    [matches |-> WithIds(matches), sections |-> sections, pNowDate |-> pNowDate]

\* one container inside one day section
SingleFragment(e) ==
    Fragment(<<e>>, <<[gameday |-> Gameday1, lo |-> 1, hi |-> 1]>>, None)

\* the #pNowDate element of a batch fragment
PNowDates(secs) ==
    IF Len(secs) <= 1 THEN {None, Some(TextElem(Gameday2))} ELSE {None}

\* html is one of the fragments the extractors are run on
IsFragment(h) ==
    \/ \E e \in StatusContainers \cup TeamContainers : h = SingleFragment(e)
    \/ \E n \in 0..MaxContainers :
          \E es \in [1..n -> BatchContainers], secs \in SectionLists(n) :
             \E p \in PNowDates(secs) : h = Fragment(es, secs, p)

----------------------------------------------------------------------------
(* Extraction: one call of an extractor on a fragment *)

NoResponse == [endpoint |-> "none", success |-> FALSE, total_games |-> 0,
               games |-> <<>>, message |-> "none"]

InitAggIdle ==
    /\ today = 0
    /\ upstream = [days |-> {}, failing |-> {}, game_days |-> {}]
    /\ all_games = <<>>
    /\ calls = <<>>
    /\ agg = "idle"

InitCacheIdle ==
    /\ cache = None
    /\ response = NoResponse
    /\ posts = 0
    /\ now = 0
    /\ produced = <<>>
    /\ replaced = <<>>

InitConcIdle ==
    /\ disk = None
    /\ pending = [r \in 1..MaxOverlap |-> None]
    /\ answer = NoResponse
    /\ written = {}
    /\ clock = 0

InitExtractIdle ==
    /\ html = Fragment(<<>>, <<>>, None)
    /\ date_str = None
    /\ games = <<>>
    /\ called = "none"

InitExtract ==
    /\ IsFragment(html)
    /\ date_str = None
    /\ games = <<>>
    /\ called = "none"
    /\ InitAggIdle
    /\ InitCacheIdle
    /\ InitConcIdle

CallParseWithDates ==
    /\ called = "none"
    /\ games' = parse_games_html_with_dates(html)
    /\ called' = "parse_games_html_with_dates"
    /\ UNCHANGED <<html, date_str>>
    /\ UNCHANGED aggVars
    /\ UNCHANGED cacheVars
    /\ UNCHANGED concVars

CallParseSimple ==
    /\ called = "none"
    /\ \E d \in {None, Some(Gameday3)} :
          /\ date_str' = d
          /\ games' = parse_games_html(html, d)
    /\ called' = "parse_games_html"
    /\ UNCHANGED html
    /\ UNCHANGED aggVars
    /\ UNCHANGED cacheVars
    /\ UNCHANGED concVars

NextExtract == CallParseWithDates \/ CallParseSimple

SpecExtract == InitExtract /\ [][NextExtract]_vars

----------------------------------------------------------------------------
(* Day aggregation: fetch_all_games and fetch_games_for_specific_date.     *)
(* A calendar date is a day number, day 1 being 2025-12-01.                *)
(* An HTTP response is [transport, status_code, body]; body is             *)
(* [json, Data]: json is "invalid" (not JSON), "array" (JSON, not an       *)
(* object) or "object", and Data is the object's optional 'Data' markup.   *)
(***************************************************************************)

DaysBack == 3
DaysAhead == 7

MonthTable ==
    << [year |-> 2025, month |-> 12, days |-> 31],
       [year |-> 2026, month |-> 1, days |-> 31],
       [year |-> 2026, month |-> 2, days |-> 28],
       [year |-> 2026, month |-> 3, days |-> 31] >>

RECURSIVE date_from(_, _)
date_from(n, k) ==
    IF n <= MonthTable[k].days
    THEN [year |-> MonthTable[k].year, month |-> MonthTable[k].month, day |-> n]
    ELSE date_from(n - MonthTable[k].days, k + 1)

\* the calendar date of a day number
date_of(n) == date_from(n, 1)

digit(k) == DigitChars[k + 1]

\* date.strftime("%m/%d/%Y")
strftime_mdY(d) ==
    << digit(d.month \div 10), digit(d.month % 10), "/",
       digit(d.day \div 10), digit(d.day % 10), "/",
       digit(d.year \div 1000), digit((d.year \div 100) % 10),
       digit((d.year \div 10) % 10), digit(d.year % 10) >>

\* current_date.strftime("%m/%d/%Y").lstrip("0").replace("/0", "/")
format_date(n) ==
    replace(lstrip_chars(strftime_mdY(date_of(n)), {"0"}), <<"/", "0">>, <<"/">>)

\* 2025-12-28 (the window runs into January) and 2026-02-08
Todays == {28, 70}

Window(today_) == (today_ - DaysBack)..(today_ + DaysAhead)

\* format_date tabulated over the days of the model (@@ makes the table
\* explicit, so that it is computed once)
DateStrs == [d \in UNION {Window(t) : t \in Todays} |-> format_date(d)] @@ <<>>

\* start_date = today - timedelta(days=3)
start_date(today_) == today_ - DaysBack

\* mutant: the window ends one day early
end_date_exclusive(today_) == today_ + DaysAhead - 1

\* end_date = today + timedelta(days=7)
end_date(today_) == today_ + DaysAhead

----------------------------------------------------------------------------
(* The upstream service *)

Response(transport, status_code, json, Data) ==
    [transport |-> transport, status_code |-> status_code,
     body |-> [json |-> json, Data |-> Data]]

\* transport error, timeout, HTTP error status, body that is not JSON, body
\* that is JSON but no object
FailureResponses ==
    << Response("connect_error", 0, "invalid", None),
       Response("timeout", 0, "invalid", None),
       Response("ok", 500, "invalid", None),
       Response("ok", 200, "invalid", None),
       Response("ok", 200, "array", None) >>

\* the day's markup: one section carrying the requested date, holding one
\* game (even day numbers) or two (odd day numbers)
DayHtml(d) ==
    Fragment(IF d % 2 = 0 THEN <<OkContainer>> ELSE <<OkContainer, OkContainer>>,
             <<[gameday |-> DateStrs[d], lo |-> 1, hi |-> IF d % 2 = 0 THEN 1 ELSE 2]>>,
             None)

\* The service is [days, failing, game_days]: asked for a date of days, it
\* fails when the day is in failing (the kind of failure varies with the
\* day), returns games when it is in game_days, and no Data otherwise.
respond(up, ds) ==
    LET d == CHOOSE x \in up.days : DateStrs[x] = ds
    IN  IF d \in up.failing THEN FailureResponses[(d % 5) + 1]
        ELSE IF d \in up.game_days THEN Response("ok", 200, "object", Some(DayHtml(d)))
        ELSE Response("ok", 200, "object", None)

Upstream(today_, failing, game_days) ==
    [days |-> Window(today_), failing |-> failing, game_days |-> game_days]

----------------------------------------------------------------------------
(* The aggregator *)

\* the try body of fetch_games_for_specific_date: exc when a statement of
\* it raises (client.post, raise_for_status, response.json, data.get)
fetch_body(resp) ==
    IF resp.transport # "ok" THEN [exc |-> TRUE, games |-> <<>>]
    ELSE IF resp.status_code >= 400 THEN [exc |-> TRUE, games |-> <<>>]
    ELSE IF resp.body.json # "object" THEN [exc |-> TRUE, games |-> <<>>]
    ELSE IF resp.body.Data = None THEN [exc |-> FALSE, games |-> <<>>]
    ELSE [exc |-> FALSE, games |-> parse_games_html_with_dates(resp.body.Data[1])]

\* except Exception: return []
fetch_or_empty(attempt) ==
    IF attempt.exc THEN [exc |-> FALSE, games |-> <<>>] ELSE attempt

\* mutant: no except clause, the exception reaches the caller
fetch_games_for_specific_date_unguarded(resp) == fetch_body(resp)

\* try: ... except Exception: return []
fetch_games_for_specific_date(resp) == fetch_or_empty(fetch_body(resp))

RECURSIVE fetch_days(_, _, _, _, _)
\* the rest of one iteration, given what the fetch for date string ds
\* returned: if games: all_games.extend(games); current_date += 1 day
\* (an exception of the fetch leaves the loop and the function)
fetch_days_after(fetched, ds, current_date, last_date, up, acc_games, acc_calls) ==
    IF fetched.exc
    THEN [exc |-> TRUE, games |-> <<>>, calls |-> Append(acc_calls, ds)]
    ELSE fetch_days(current_date + 1, last_date, up,
                    IF fetched.games # <<>> THEN acc_games \o fetched.games
                    ELSE acc_games,
                    Append(acc_calls, ds))

\* while current_date <= end_date: fetch the date, extend, step one day
fetch_days(current_date, last_date, up, acc_games, acc_calls) ==
    IF current_date > last_date
    THEN [exc |-> FALSE, games |-> acc_games, calls |-> acc_calls]
    ELSE fetch_days_after(
             fetch_games_for_specific_date(respond(up, DateStrs[current_date])),
             DateStrs[current_date], current_date, last_date, up, acc_games, acc_calls)

\* returns the list, with the requests it made (calls)
fetch_all_games(today_, up) ==
    fetch_days(start_date(today_), end_date(today_), up, <<>>, <<>>)

----------------------------------------------------------------------------
(* Runs of the aggregator *)

\* the days of the window on which the service may have games: its first
\* day, yesterday, today and its last day
GameDayCandidates(today_) ==
    {today_ - DaysBack, today_ - 1, today_, today_ + DaysAhead}

GameDaySets(days) == {S \in SUBSET days : Cardinality(S) <= MaxGameDays}

InitAgg ==
    /\ InitExtractIdle
    /\ InitAggIdle
    /\ InitCacheIdle
    /\ InitConcIdle

\* one run of fetch_all_games
CallFetchAllGames ==
    /\ agg = "idle"
    /\ \E t \in Todays :
         \E failing \in SUBSET Window(t) :
            \E game_days \in GameDaySets(GameDayCandidates(t) \ failing) :
               \E result \in {fetch_all_games(t, Upstream(t, failing, game_days))} :
                   /\ today' = t
                   /\ upstream' = Upstream(t, failing, game_days)
                   /\ all_games' = result.games
                   /\ calls' = result.calls
                   /\ agg' = IF result.exc THEN "raised" ELSE "returned"
    /\ UNCHANGED extractVars
    /\ UNCHANGED cacheVars
    /\ UNCHANGED concVars

NextAgg == CallFetchAllGames

SpecAgg == InitAgg /\ [][NextAgg]_vars

----------------------------------------------------------------------------
(* The cache endpoints: get_games and refresh_games.                       *)
(* CACHE_FILE is None (no file) or Some(document), the document being the  *)
(* JSON object refresh_games dumps. A JSON value of an Optional[str] field *)
(* is [null, str]. No file-system error is modelled: open, dump and load   *)
(* succeed.                                                                *)
(***************************************************************************)

\* class GamesResponse (endpoint records which handler built it)
GamesResponse(endpoint, success, total_games, games_, message) ==
    [endpoint |-> endpoint, success |-> success, total_games |-> total_games,
     games |-> games_, message |-> message]

\* json.dump of game.dict(): None becomes null, a str a JSON string
game_to_json(game) ==
    [game EXCEPT !.date = IF game.date = None THEN [null |-> TRUE, str |-> <<>>]
                          ELSE [null |-> FALSE, str |-> game.date[1]]]

\* Game(**game) of a json.load'ed object
game_from_json(obj) ==
    [obj EXCEPT !.date = IF obj.date.null THEN None ELSE Some(obj.date.str)]

\* the games a snapshot document holds
games_of(document) == [i \in DOMAIN document.games |-> game_from_json(document.games[i])]

\* mutant: a read that finds no snapshot refreshes on its own and stores
\* what it fetched
get_games_refreshing(file, posts_) ==
    IF file # None
    THEN [response |-> GamesResponse("get_games", TRUE, Len(games_of(file[1])),
                                     games_of(file[1]), "Loaded games from cache"),
          cache |-> file, posts |-> posts_]
    ELSE [response |-> GamesResponse("get_games", TRUE, 0, <<>>, "Loaded games from cache"),
          cache |-> Some([games |-> <<>>, count |-> 0, last_updated |-> 0]),
          posts |-> posts_ + DaysBack + DaysAhead + 1]

\* GET /api/games: what it returns, and the file and request count after it
get_games(file, posts_) ==
    IF file # None
    THEN [response |-> GamesResponse("get_games", TRUE, Len(games_of(file[1])),
                                     games_of(file[1]), "Loaded games from cache"),
          cache |-> file, posts |-> posts_]
    ELSE [response |-> GamesResponse("get_games", FALSE, 0, <<>>,
                                     "No cached data found. Use /api/games/refresh to fetch from API"),
          cache |-> file, posts |-> posts_]

\* the snapshot document refresh_games dumps
cache_data(games_, now_) ==
    [games |-> [i \in DOMAIN games_ |-> game_to_json(games_[i])],
     count |-> Len(games_), last_updated |-> now_]

\* refresh_games once fetch_all_games has returned or raised
refresh_result(fetched, file, posts_, now_) ==
    IF fetched.exc
    THEN [response |-> GamesResponse("refresh_games", FALSE, 0, <<>>, "Error fetching games"),
          cache |-> file, posts |-> posts_ + Len(fetched.calls)]
    ELSE [response |-> GamesResponse("refresh_games", TRUE, Len(fetched.games),
                                     fetched.games, "Successfully fetched and cached games"),
          cache |-> Some(cache_data(fetched.games, now_)),
          posts |-> posts_ + Len(fetched.calls)]

\* mutant: the fetched games are added to the games of the snapshot
refresh_merging(fetched, file, posts_, now_) ==
    IF fetched.exc \/ file = None THEN refresh_result(fetched, file, posts_, now_)
    ELSE [response |-> GamesResponse("refresh_games", TRUE, Len(fetched.games),
                                     fetched.games, "Successfully fetched and cached games"),
          cache |-> Some([games |-> file[1].games \o cache_data(fetched.games, now_).games,
                          count |-> Len(file[1].games) + Len(fetched.games),
                          last_updated |-> now_]),
          posts |-> posts_ + Len(fetched.calls)]

\* mutant of refresh_games
refresh_games_merging(file, posts_, today_, up, now_) ==
    refresh_merging(fetch_all_games(today_, up), file, posts_, now_)

\* GET /api/games/refresh
refresh_games(file, posts_, today_, up, now_) ==
    refresh_result(fetch_all_games(today_, up), file, posts_, now_)

\* the failing days of the services the API is refreshed against: none, all
\* of the window, today only
RefreshFailings(today_) == { {}, Window(today_), {today_} }

Init ==
    /\ InitExtractIdle
    /\ InitAggIdle
    /\ InitCacheIdle
    /\ InitConcIdle

GetGames ==
    /\ \E r \in {get_games(cache, posts)} :
           /\ response' = r.response
           /\ cache' = r.cache
           /\ posts' = r.posts
    /\ UNCHANGED <<now, produced, replaced>>
    /\ UNCHANGED extractVars
    /\ UNCHANGED aggVars
    /\ UNCHANGED concVars

RefreshGames ==
    /\ now < MaxRefreshes
    /\ \E t \in Todays :
         \E failing \in RefreshFailings(t) :
            \E game_days \in GameDaySets(GameDayCandidates(t) \ failing) :
               \E r \in {refresh_games(cache, posts, t,
                                         Upstream(t, failing, game_days), now + 1)} :
                   /\ response' = r.response
                   /\ cache' = r.cache
                   /\ posts' = r.posts
                   /\ produced' = IF r.response.success THEN r.response.games
                                  ELSE produced
                   /\ replaced' = IF ~r.response.success THEN replaced
                                  ELSE IF cache = None THEN <<>>
                                  ELSE games_of(cache[1])
    /\ now' = now + 1
    /\ UNCHANGED extractVars
    /\ UNCHANGED aggVars
    /\ UNCHANGED concVars

Next == GetGames \/ RefreshGames

Spec == Init /\ [][Next]_vars

----------------------------------------------------------------------------
(* Overlapping requests. The handlers are coroutines of one event loop: a  *)
(* handler runs without interruption from one await to the next. The only  *)
(* await of refresh_games is "await fetch_all_games()"; get_games has      *)
(* none. CACHE_FILE is here its text, a sequence of tokens, so that a      *)
(* write that stops part-way leaves a prefix of the document.              *)
(***************************************************************************)

\* json.dump(cache_data, f, indent=2): the tokens written, in order
json_dump(document) ==
    <<<<"{">>>>
    \o [i \in DOMAIN document.games |-> <<"game", document.games[i]>>]
    \o << <<"count", document.count>>,
          <<"last_updated", document.last_updated>>,
          <<"}">> >>

\* json.load(f): the document, or JSONDecodeError on a text that is not one
\* whole JSON object
json_load(text) ==
    LET n == Len(text)
        whole == /\ n >= 4
                 /\ text[1] = <<"{">>
                 /\ \A i \in 2..(n - 3) : text[i][1] = "game"
                 /\ text[n - 2][1] = "count"
                 /\ text[n - 1][1] = "last_updated"
                 /\ text[n] = <<"}">>
    IN  IF whole
        THEN [exc |-> FALSE,
              data |-> Some([games |-> [i \in 1..(n - 4) |-> text[i + 1][2]],
                             count |-> text[n - 2][2],
                             last_updated |-> text[n - 1][2]])]
        ELSE [exc |-> TRUE, data |-> None]

\* GET /api/games on the text of the file: CACHE_FILE.exists(), json.load,
\* and the except clause that answers a failed load
get_games_from(disk_) ==
    IF disk_ = None THEN get_games(None, 0).response
    ELSE IF json_load(disk_[1]).exc
    THEN GamesResponse("get_games", FALSE, 0, <<>>, "Error reading cache")
    ELSE get_games(json_load(disk_[1]).data, 0).response

\* how far "with open(CACHE_FILE, 'w') as f: json.dump(...)" gets: -1 when
\* open raises (the file is not touched), k < Len(text) when the write
\* raises after k tokens (open has truncated the file), Len(text) when all
\* of the text is written
WriteOutcomes(text) == {-1} \cup 0..Len(text)

\* refresh_games from the return of fetch_all_games on: the response and the
\* text of the file after it
refresh_games_writing(fetched, disk_, now_, outcome) ==
    LET text == json_dump(cache_data(fetched.games, now_))
        failure == GamesResponse("refresh_games", FALSE, 0, <<>>, "Error fetching games")
    IN  IF fetched.exc \/ outcome = -1
        THEN [response |-> failure, disk |-> disk_]
        ELSE IF outcome < Len(text)
        THEN [response |-> failure, disk |-> Some(SubSeq(text, 1, outcome))]
        ELSE [response |-> GamesResponse("refresh_games", TRUE, Len(fetched.games),
                                         fetched.games, "Successfully fetched and cached games"),
              disk |-> Some(text)]

\* the services an overlapping refresh is run against: every day answers
\* and yesterday and today may have games, or no day answers
RefreshUpstreams(today_) ==
    { Upstream(today_, {}, game_days) :
        game_days \in GameDaySets({today_ - 1, today_}) }
    \cup { Upstream(today_, Window(today_), {}) }

InitConc ==
    /\ InitExtractIdle
    /\ InitAggIdle
    /\ InitCacheIdle
    /\ InitConcIdle

\* a refresh request arrives and runs up to its await; today is read when
\* fetch_all_games starts
BeginRefresh(r) ==
    /\ pending[r] = None
    /\ clock < MaxRefreshes
    /\ \E t \in Todays : pending' = [pending EXCEPT ![r] = Some(t)]
    /\ clock' = clock + 1
    /\ UNCHANGED <<disk, answer, written>>
    /\ UNCHANGED extractVars
    /\ UNCHANGED aggVars
    /\ UNCHANGED cacheVars

\* fetch_all_games returns to the suspended refresh, which runs to its end
EndRefresh(r) ==
    /\ pending[r] # None
    /\ \E up \in RefreshUpstreams(pending[r][1]) :
         \E fetched \in {fetch_all_games(pending[r][1], up)} :
            \E outcome \in WriteOutcomes(json_dump(cache_data(fetched.games, clock))) :
               \E result \in {refresh_games_writing(fetched, disk, clock, outcome)} :
                   /\ disk' = result.disk
                   /\ answer' = result.response
                   /\ written' = IF result.response.success
                                  THEN written \cup {fetched.games}
                                  ELSE written
    /\ pending' = [pending EXCEPT ![r] = None]
    /\ UNCHANGED clock
    /\ UNCHANGED extractVars
    /\ UNCHANGED aggVars
    /\ UNCHANGED cacheVars

\* a read request: get_games runs from start to end
ServeGames ==
    /\ answer' = get_games_from(disk)
    /\ UNCHANGED <<disk, pending, written, clock>>
    /\ UNCHANGED extractVars
    /\ UNCHANGED aggVars
    /\ UNCHANGED cacheVars

NextConc ==
    \/ \E r \in 1..MaxOverlap : BeginRefresh(r)
    \/ \E r \in 1..MaxOverlap : EndRefresh(r)
    \/ ServeGames

SpecConc == InitConc /\ [][NextConc]_vars

----------------------------------------------------------------------------
(* Claims about extraction (checked under SpecExtract) *)

\* the container a returned record was built from (data-ids are unique)
OriginOf(g) == CHOOSE e \in {html.matches[i] : i \in DOMAIN html.matches} :
                  e.data_id = g.game_id

\* forfeit/default marker text in some small.text-muted of the container,
\* in any letter case
HasForfeitMarker(e) ==
    \E i \in DOMAIN e.muted :
       \/ contains(FORFEIT, lower(get_text(e.muted[i])))
       \/ contains(DEFAULT, lower(get_text(e.muted[i])))

\* a score other than the unscored sentinel is shown
ScorePresent(score_elem) ==
    score_elem # None /\ get_text(score_elem[1]) # SENTINEL

\* C1: every record emitted for a container that holds forfeit/default
\* marker text in any of its muted text elements has status forfeit,
\* whatever its two score texts are.
C1_MarkerImpliesForfeit ==
    \A i \in DOMAIN games :
       HasForfeitMarker(OriginOf(games[i])) => games[i].status = "forfeit"

\* C2: a record has status scheduled only if both its scores are "--" and
\* its container holds no forfeit marker, and every record of a container
\* with both scores "--" and no forfeit marker has status scheduled.
C2_ScheduledIffUnscoredUnmarked ==
    \A i \in DOMAIN games :
       LET e == OriginOf(games[i])
       IN  games[i].status = "scheduled"
             <=> /\ score_text(e.score1) = SENTINEL
                 /\ score_text(e.score2) = SENTINEL
                 /\ games[i].home_score = SENTINEL
                 /\ games[i].away_score = SENTINEL
                 /\ ~HasForfeitMarker(e)

\* C3: a record of a container with exactly one score present, the other
\* absent, and no forfeit marker has status unknown.
C3_OneScoreIsUnknown ==
    \A i \in DOMAIN games :
       LET e == OriginOf(games[i])
       IN  /\ \/ ScorePresent(e.score1) /\ e.score2 = None
              \/ e.score1 = None /\ ScorePresent(e.score2)
           /\ ~HasForfeitMarker(e)
           => games[i].status = "unknown"

\* C4: a record has status completed only if both its scores are numeric
\* text and its container holds no forfeit marker, and every record of a
\* container with both scores numeric and no forfeit marker has status
\* completed and carries both score texts unchanged.
C4_CompletedIffNumericUnmarked ==
    \A i \in DOMAIN games :
       LET e == OriginOf(games[i])
           numeric == isdigit(score_text(e.score1)) /\ isdigit(score_text(e.score2))
       IN  /\ games[i].status = "completed" => numeric /\ ~HasForfeitMarker(e)
           /\ numeric /\ ~HasForfeitMarker(e)
                => /\ games[i].status = "completed"
                   /\ games[i].home_score = score_text(e.score1)
                   /\ games[i].away_score = score_text(e.score2)

\* C5: no returned record has an empty home team name or an empty away team
\* name.
C5_NoEmptyTeamName ==
    \A i \in DOMAIN games :
       games[i].home_team # <<>> /\ games[i].away_team # <<>>

\* the containers an extractor attempts, in the order it attempts them, each
\* with the date it is given
RECURSIVE AttemptsOfSections(_)
AttemptsOfSections(secs) ==
    IF secs = <<>> THEN <<>>
    ELSE [k \in 1..(Head(secs).hi - Head(secs).lo + 1) |->
             [elem |-> html.matches[Head(secs).lo + k - 1],
              date |-> Some(Head(secs).gameday)]]
         \o AttemptsOfSections(Tail(secs))

Attempts ==
    IF called = "parse_games_html_with_dates" THEN AttemptsOfSections(html.sections)
    ELSE IF called = "parse_games_html"
    THEN [k \in DOMAIN html.matches |->
             [elem |-> html.matches[k], date |-> current_date_simple(html, date_str)]]
    ELSE <<>>

\* the container is skipped: it fails to parse or lacks a team element
IsSkipped(a) ==
    \/ a.elem.raises
    \/ IF called = "parse_games_html_with_dates"
       THEN (a.elem.left_home = None /\ a.elem.any_home = None)
            \/ (a.elem.right_away = None /\ a.elem.any_away = None)
       ELSE a.elem.any_home = None \/ a.elem.any_away = None

\* what the extractor returns for the attempted container standing alone
Alone(a) ==
    LET single == [matches |-> <<a.elem>>, pNowDate |-> None,
                   sections |-> IF a.date = None THEN <<>>
                                ELSE <<[gameday |-> a.date[1], lo |-> 1, hi |-> 1]>>]
    IN  IF called = "parse_games_html_with_dates"
        THEN parse_games_html_with_dates(single)
        ELSE parse_games_html(single, a.date)

\* C10: the extractor returns exactly the records of the attempted
\* containers that are not skipped, in the order attempted, each as it would
\* be returned for that container alone: a skipped container changes no
\* other record, and len(output) = attempted - skipped.
C10_PerRecordIsolation ==
    called # "none" =>
       LET kept == SelectSeq(Attempts, LAMBDA a : ~IsSkipped(a))
           skipped == {k \in DOMAIN Attempts : IsSkipped(Attempts[k])}
       IN  /\ Len(games) = Len(Attempts) - Cardinality(skipped)
           /\ Len(games) = Len(kept)
           /\ \A i \in DOMAIN kept : <<games[i]>> = Alone(kept[i])

\* C10 witness: a batch of three containers in one section whose second
\* container raises; the first and third are returned.
C10_Witness ==
    /\ called = "parse_games_html_with_dates"
    /\ Len(html.matches) = 3
    /\ Len(html.sections) = 1
    /\ html.sections[1].lo = 1 /\ html.sections[1].hi = 3
    /\ html.matches[2].raises
    /\ Len(games) = 2
    /\ games[1].game_id = "g1" /\ games[2].game_id = "g3"

\* C11: extraction from a fragment with day-scoped sections attempts each
\* game container at most once, so no container (identified by its data-id,
\* unique within a fragment) appears twice in the returned sequence, for
\* every arrangement of the sections, nested ones included.
C11_NoContainerTwice ==
    (called = "parse_games_html_with_dates" /\ html.sections # <<>>) =>
       \A i, j \in DOMAIN games :
          i # j => games[i].game_id # games[j].game_id

\* the (section, container) pairs that yield a record: the container lies
\* in the section and is not skipped
SectionRecords ==
    { a \in (DOMAIN html.sections) \X (DOMAIN html.matches) :
        /\ html.sections[a[1]].lo <= a[2]
        /\ a[2] <= html.sections[a[1]].hi
        /\ ~IsSkipped([elem |-> html.matches[a[2]]]) }

\* section order first, document order inside a section
Before(a, b) == a[1] < b[1] \/ (a[1] = b[1] /\ a[2] < b[2])

PlaceOf(a) == 1 + Cardinality({ b \in SectionRecords : Before(b, a) })

OutsideEverySection(p) ==
    \A s \in DOMAIN html.sections :
       p < html.sections[s].lo \/ html.sections[s].hi < p

\* C12: in a fragment with day-scoped sections the returned sequence is the
\* records of the sections in section order, document order kept inside each
\* section, every record carrying the gameday value of the section it was
\* extracted from; a container outside every section yields no record.
C12_SectionDatePropagated ==
    (called = "parse_games_html_with_dates" /\ html.sections # <<>>) =>
       /\ Len(games) = Cardinality(SectionRecords)
       /\ \A a \in SectionRecords :
             /\ games[PlaceOf(a)].game_id = html.matches[a[2]].data_id
             /\ games[PlaceOf(a)].date = Some(html.sections[a[1]].gameday)
       /\ \A p \in DOMAIN html.matches :
             OutsideEverySection(p) =>
                \A i \in DOMAIN games : games[i].game_id # html.matches[p].data_id

\* C12 witness: three containers, the first in a section of one day, the
\* third in a section of the next day, the second outside both; the two
\* records returned carry the two days in section order.
C12_Witness ==
    /\ called = "parse_games_html_with_dates"
    /\ Len(html.matches) = 3
    /\ Len(html.sections) = 2
    /\ html.sections[1].lo = 1 /\ html.sections[1].hi = 1
    /\ html.sections[2].lo = 3 /\ html.sections[2].hi = 3
    /\ Len(games) = 2
    /\ games[1].game_id = "g1" /\ games[1].date = Some(Gameday1)
    /\ games[2].game_id = "g3" /\ games[2].date = Some(Gameday2)

----------------------------------------------------------------------------
(* Claims about aggregation (checked under SpecAgg) *)

\* the fetch for the date string fails: transport error or timeout, HTTP
\* error status, or a body that is not a JSON object
FetchFails(ds) ==
    LET resp == respond(upstream, ds)
    IN  resp.transport # "ok" \/ resp.status_code >= 400 \/ resp.body.json # "object"

\* the records the markup returned for the date string holds
RecordsFor(ds) ==
    LET resp == respond(upstream, ds)
    IN  IF FetchFails(ds) \/ resp.body.Data = None THEN <<>>
        ELSE parse_games_html_with_dates(resp.body.Data[1])

RECURSIVE ConcatNonFailing(_, _)
ConcatNonFailing(d, last) ==
    IF d > last THEN <<>>
    ELSE RecordsFor(DateStrs[d]) \o ConcatNonFailing(d + 1, last)

\* C6: whichever dates of the window fail, fetch_all_games does not raise,
\* requests every date of the window, and returns the concatenation of the
\* records of the non-failing dates (nothing for a failed date); when every
\* date fails it returns the empty list.
C6_FailedDatesContributeNothing ==
    agg # "idle" =>
       /\ agg = "returned"
       /\ \A d \in Window(today) : \E i \in DOMAIN calls : calls[i] = DateStrs[d]
       /\ all_games = ConcatNonFailing(today - DaysBack, today + DaysAhead)
       /\ (\A d \in Window(today) : FetchFails(DateStrs[d])) => all_games = <<>>

\* C6 witness: a run in which a date fails between two dates that return
\* games, and the games of both are returned.
C6_Witness ==
    /\ agg = "returned"
    /\ \E a, b, c \in Window(today) :
          /\ a < b /\ b < c
          /\ FetchFails(DateStrs[b])
          /\ RecordsFor(DateStrs[a]) # <<>>
          /\ RecordsFor(DateStrs[c]) # <<>>
          /\ all_games = RecordsFor(DateStrs[a]) \o RecordsFor(DateStrs[c])

\* the position in the window of the date a returned record carries
DayIndex(g) == CHOOSE k \in DOMAIN calls : g.date = Some(calls[k])

\* C7: one run requests the dates today-3 .. today+7, each exactly once, in
\* ascending order (11 requests), and the returned list is day-ascending,
\* the records of one date in the order its fetch returned them.
C7_WindowAscendingOnce ==
    agg = "returned" =>
       /\ Len(calls) = DaysBack + DaysAhead + 1
       /\ \A i \in DOMAIN calls : calls[i] = DateStrs[today - DaysBack + i - 1]
       /\ \A i, j \in DOMAIN calls : i < j => calls[i] # calls[j]
       /\ \A i, j \in DOMAIN all_games :
             i < j => DayIndex(all_games[i]) <= DayIndex(all_games[j])
       /\ \A k \in DOMAIN calls :
             SelectSeq(all_games, LAMBDA g : g.date = Some(calls[k]))
               = fetch_games_for_specific_date(respond(upstream, calls[k])).games

\* C7 witness: a run over the turn of the year in which the first and the
\* last date of the window return games (two each).
C7_Witness ==
    /\ agg = "returned"
    /\ today = 28
    /\ Len(all_games) = 4
    /\ all_games[1].date = Some(DateStrs[today - DaysBack])
    /\ all_games[2].date = Some(DateStrs[today - DaysBack])
    /\ all_games[3].date = Some(DateStrs[today + DaysAhead])
    /\ all_games[4].date = Some(DateStrs[today + DaysAhead])
    /\ all_games[1].game_id = "g1" /\ all_games[2].game_id = "g2"
    /\ all_games[3].game_id = "g1" /\ all_games[4].game_id = "g2"

----------------------------------------------------------------------------
(* Claims about the cache endpoints (checked under Spec) *)

C9_ReadWithoutSnapshot ==
    [][ (cache = None /\ now' = now) =>
           /\ response' = GamesResponse("get_games", FALSE, 0, <<>>,
                 "No cached data found. Use /api/games/refresh to fetch from API")
           /\ cache' = None
           /\ posts' = posts ]_vars

\* C9 witness: get_games has answered and there is still no snapshot.
C9_Witness ==
    /\ response.endpoint = "get_games"
    /\ cache = None
    /\ posts = 0

----------------------------------------------------------------------------
(* Claims about overlapping requests (checked under SpecConc) *)

\* the response get_games gives when there is no snapshot file
NoSnapshotAnswer == get_games(None, 0).response

\* a step in which a suspended refresh finishes
RefreshFinishes ==
    \E r \in 1..MaxOverlap : pending[r] # None /\ pending'[r] = None

\* C13: under any interleaving of refresh_games and get_games requests,
\* overlapping refreshes and refreshes that fail part-way included, what
\* get_games answers is either the no-snapshot answer or the whole
\* collection that one finished refresh wrote, and a refresh that reports
\* failure leaves the text of the snapshot file as it was.
C13_ReadersSeeWholeSnapshots ==
    /\ [](answer.endpoint = "get_games" =>
            \/ answer = NoSnapshotAnswer
            \/ answer.success /\ answer.games \in written)
    /\ [][(RefreshFinishes /\ ~answer'.success) => disk' = disk]_vars

====
